---------------------------- MODULE Spec2Model ----------------------------
(***************************************************************************)
(* Model of darksworm/shape-aligner: the Polygon transform primitives      *)
(* (src/polygon.py, class Polygon) and the board-coverage computation      *)
(* (src/polygon.py, classes PolygonPiece, PolygonIntersector, Level).      *)
(*                                                                         *)
(* Numbers.  All arithmetic is exact integer arithmetic.                   *)
(*  - A Polygon that is rotated or flipped holds its coordinates as        *)
(*    integer multiples of 1/n, n the number of vertices: the centroid of  *)
(*    integer vertices is a multiple of 1/n, and rotation by a multiple of *)
(*    90 degrees, subtraction of the centroid and the quadrant-one shift   *)
(*    keep every coordinate a multiple of 1/n.  Angles are multiples of 90 *)
(*    degrees, for which the rotation matrix is exact.                     *)
(*  - area() is kept in half square units (twice the shoelace value), so   *)
(*    that it is an integer; a percentage is a ratio of two areas and is   *)
(*    unaffected by the common factor.                                     *)
(***************************************************************************)
EXTENDS Integers, Sequences, FiniteSets

\* ------------------------------------------------------------------ bounds
\* Largest side of the rectangles and triangles a Polygon is constructed from.
MaxSide == 3
\* Largest distance a constructed point list is moved into negative coordinates.
MaxShift == 1
\* Rotation angles are 90*k degrees for k in -MaxTurns..MaxTurns.
MaxTurns == 8
\* Largest number of pieces of a Level.
MaxPieces == 4
\* Pieces are placed at the positions [x, 0], x in 0..MaxPos.
MaxPos == 1
\* The arguments of PolygonPiece.move are in -MaxMove..MaxMove.
MaxMove == 1
\* Largest number of move calls on a PolygonPiece.
MaxMoves == 2

VARIABLES
    points_matrix,   \* Polygon._points_matrix, a sequence of <<x, y>>
    exists,          \* TRUE once Polygon.__init__ has returned an object
    raised,          \* the error the last constructor call raised, or "none"
    op,              \* the last operation on the polygon
    deg,             \* the argument of the last rotate, 0 otherwise
    before,          \* points_matrix as it was before the last operation
    origin,          \* points_matrix as it was before the operation before that
    undone           \* TRUE when the last two operations were rotate(d); rotate(-d)

polyVars == <<points_matrix, exists, raised, op, deg, before, origin, undone>>

VARIABLES
    board,           \* Level._board
    pieces,          \* Level._pieces
    measured,        \* TRUE once get_completion_percentage has returned for this Level
    covered_area,    \* covered_area when the loop of get_completion_percentage ended
    divided,         \* TRUE when the return statement evaluated the division
    percentage,      \* the value get_completion_percentage returned
    prev_percentage  \* the value it returned for the Level without its last piece

levelVars == <<board, pieces, measured, covered_area, divided, percentage,
               prev_percentage>>

VARIABLES
    placed,          \* a PolygonPiece: its _polygon (the points) and its _position
    initial,         \* the piece as PolygonPiece.__init__ left it
    moved,           \* the sum of the arguments of all move calls
    moves,           \* the number of move calls
    query,           \* the last query since the last move, or "none"
    answer,          \* the value that query returned
    stale            \* TRUE when a query was answered before the last move

pieceVars == <<placed, initial, moved, moves, query, answer, stale>>

vars == <<polyVars, levelVars, pieceVars>>

\* ------------------------------------------------------------ small helpers
Abs(a) == IF a < 0 THEN 0 - a ELSE a

RECURSIVE SumOver(_, _)
\* sum of f[i] over the finite set S of indexes
SumOver(f, S) ==
    IF S = {} THEN 0
    ELSE LET i == CHOOSE j \in S : TRUE
         IN f[i] + SumOver(f, S \ {i})

SetMin(S) == CHOOSE m \in S : \A e \in S : m <= e

\* ----------------------------------------------------------- class Polygon
get_point_count(pm) == Len(pm)

get_point_sum(pm) ==
    << SumOver([i \in DOMAIN pm |-> pm[i][1]], DOMAIN pm),
       SumOver([i \in DOMAIN pm |-> pm[i][2]], DOMAIN pm) >>

\* sum / [count, count]; exact for coordinates held in units of 1/count
get_centroid_point(pm) ==
    << get_point_sum(pm)[1] \div get_point_count(pm),
       get_point_sum(pm)[2] \div get_point_count(pm) >>

get_point_min(pm) ==
    << SetMin({pm[i][1] : i \in DOMAIN pm}),
       SetMin({pm[i][2] : i \in DOMAIN pm}) >>

move_to_quadrant_one(pm) ==
    LET minimums == get_point_min(pm)
        point_adjustment ==
            << IF minimums[1] >= 0 THEN 0 ELSE 0 - minimums[1],
               IF minimums[2] >= 0 THEN 0 ELSE 0 - minimums[2] >>
    IN [i \in DOMAIN pm |->
            << pm[i][1] + point_adjustment[1], pm[i][2] + point_adjustment[2] >>]

\* math.cos and math.sin of math.radians(degrees), degrees a multiple of 90
cos_angle(degrees) ==
    CASE degrees % 360 = 0   -> 1
      [] degrees % 360 = 90  -> 0
      [] degrees % 360 = 180 -> 0 - 1
      [] degrees % 360 = 270 -> 0

sin_angle(degrees) ==
    CASE degrees % 360 = 0   -> 0
      [] degrees % 360 = 90  -> 1
      [] degrees % 360 = 180 -> 0
      [] degrees % 360 = 270 -> 0 - 1

\* the matrix with the sign of the lower-left sine lost
rotation_matrix_sign_lost(degrees) ==
    << << cos_angle(degrees), sin_angle(degrees) >>,
       << sin_angle(degrees), cos_angle(degrees) >> >>

get_clockwise_rotation_matrix_for_degrees(degrees) ==
    << << cos_angle(degrees), sin_angle(degrees) >>,
       << 0 - sin_angle(degrees), cos_angle(degrees) >> >>

\* (points - centroid) . rotation + centroid, row vectors times the matrix
apply_rotation(pm, centroid_matrix, rotation_matrix) ==
    [i \in DOMAIN pm |->
        LET cx == pm[i][1] - centroid_matrix[1]
            cy == pm[i][2] - centroid_matrix[2]
        IN << cx * rotation_matrix[1][1] + cy * rotation_matrix[2][1]
                + centroid_matrix[1],
              cx * rotation_matrix[1][2] + cy * rotation_matrix[2][2]
                + centroid_matrix[2] >>]

get_rotated_points(pm, degrees) ==
    apply_rotation(pm, get_centroid_point(pm),
                   get_clockwise_rotation_matrix_for_degrees(degrees))

\* the early return taken for 0 degrees only
rotation_result_same_only_for_zero(degrees) == degrees = 0

rotation_result_same_as_current_state(degrees) == degrees % 360 = 0

\* Polygon.rotate as a function of the points
rotate(pm, degrees) ==
    IF rotation_result_same_as_current_state(degrees)
    THEN pm
    ELSE move_to_quadrant_one(get_rotated_points(pm, degrees))

\* the reversal of the rows alone, as numpy.flip(m, axis=0) does it
numpy_flip_rows_only(pm) == [i \in DOMAIN pm |-> pm[Len(pm) + 1 - i]]

\* the reversal taking both columns from the second column
numpy_flip_column_repeated(pm) ==
    [i \in DOMAIN pm |-> << pm[Len(pm) + 1 - i][2], pm[Len(pm) + 1 - i][2] >>]

\* numpy.flip without an axis reverses every axis of the n x 2 matrix: the
\* rows end-to-end and the two columns of each row
numpy_flip(pm) ==
    [i \in DOMAIN pm |-> << pm[Len(pm) + 1 - i][2], pm[Len(pm) + 1 - i][1] >>]

\* Polygon.flip as a function of the points
flip(pm) ==
    LET rotated == rotate(pm, 0 - 90)
        flipped == numpy_flip(rotated)
        centroid == get_centroid_point(flipped)
        centred == [i \in DOMAIN flipped |->
                       << flipped[i][1] - centroid[1], flipped[i][2] - centroid[2] >>]
    IN move_to_quadrant_one(centred)

\* twice the value of Polygon.area: |dot(x, roll(y, 1)) - dot(y, roll(x, 1))|
area(pm) ==
    LET n == Len(pm)
        roll(i) == IF i = 1 THEN n ELSE i - 1
    IN Abs(SumOver([i \in DOMAIN pm |-> pm[i][1] * pm[roll(i)][2]], DOMAIN pm)
         - SumOver([i \in DOMAIN pm |-> pm[i][2] * pm[roll(i)][1]], DOMAIN pm))

\* ------------------------------------------------------ class PolygonPiece
\* a PolygonPiece (a Board is one): [polygon |-> point list, position |-> <<x, y>>]
PolygonPiece(polygon, position) == [polygon |-> polygon, position |-> position]

get_points_in_plane(piece) ==
    [i \in DOMAIN piece.polygon |->
        << piece.polygon[i][1] + piece.position[1],
           piece.polygon[i][2] + piece.position[2] >>]

\* numpy.array(position) + centroid, in units of 1/count like the centroid
get_center_in_plane(piece) ==
    LET count == get_point_count(piece.polygon)
        centroid_position ==
            get_centroid_point([i \in DOMAIN piece.polygon |->
                                   << count * piece.polygon[i][1],
                                      count * piece.polygon[i][2] >>])
    IN << count * piece.position[1] + centroid_position[1],
          count * piece.position[2] + centroid_position[2] >>

\* the move applied to the points of the polygon as well
move_baked_into_polygon(piece, x, y) ==
    [polygon |-> [i \in DOMAIN piece.polygon |->
                     << piece.polygon[i][1] + x, piece.polygon[i][2] + y >>],
     position |-> << piece.position[1] + x, piece.position[2] + y >>]

\* PolygonPiece.move as a function of the piece
move(piece, x, y) ==
    [polygon |-> piece.polygon,
     position |-> << piece.position[1] + x, piece.position[2] + y >>]

\* ------------------------------------------------ class PolygonIntersector
\* The clipping engine (pyclipper) on closed contours with integer vertices and
\* axis-parallel edges, where its result is exact.  A region is the set of the
\* unit cells <<x, y>> (lower-left corners) it covers.

\* AddPath raises ClipperException: fewer than 3 vertices are left once the
\* duplicate and collinear ones are removed, i.e. all vertices lie on one line
AddPathRejects(path) ==
    \A i, j \in DOMAIN path :
        (path[i][1] - path[1][1]) * (path[j][2] - path[1][2])
            = (path[i][2] - path[1][2]) * (path[j][1] - path[1][1])

\* even-odd fill: the cell is inside when a ray from its centre to the right
\* crosses an odd number of edges of the closed path
CellInside(path, cell) ==
    LET n == Len(path)
        next(i) == IF i = n THEN 1 ELSE i + 1
        crossing == { i \in DOMAIN path :
                        /\ path[i][1] = path[next(i)][1]
                        /\ path[i][1] > cell[1]
                        /\ \/ path[i][2] <= cell[2] /\ cell[2] < path[next(i)][2]
                           \/ path[next(i)][2] <= cell[2] /\ cell[2] < path[i][2] }
    IN Cardinality(crossing) % 2 = 1

SetMax(S) == CHOOSE m \in S : \A e \in S : m >= e

PathCells(path) ==
    LET xs == { path[i][1] : i \in DOMAIN path }
        ys == { path[i][2] : i \in DOMAIN path }
    IN { cell \in (SetMin(xs)..(SetMax(xs) - 1)) \X (SetMin(ys)..(SetMax(ys) - 1)) :
            CellInside(path, cell) }

Neighbours(cell) ==
    { << cell[1] + 1, cell[2] >>, << cell[1] - 1, cell[2] >>,
      << cell[1], cell[2] + 1 >>, << cell[1], cell[2] - 1 >> }

RECURSIVE Connected(_, _)
\* the cells of `cells` joined edge to edge to the cells of `seen`
Connected(seen, cells) ==
    LET more == { c \in cells \ seen : Neighbours(c) \cap seen # {} }
    IN IF more = {} THEN seen ELSE Connected(seen \cup more, cells)

\* the lowest cell of the leftmost column
FirstCell(cells) ==
    CHOOSE c \in cells : \A d \in cells : c[1] < d[1] \/ (c[1] = d[1] /\ c[2] <= d[2])

\* the unit edges of the boundary of a region, each directed with the region
\* on its left
BoundaryEdges(region) ==
    { << <<c[1], c[2]>>, <<c[1] + 1, c[2]>> >> :
        c \in { d \in region : << d[1], d[2] - 1 >> \notin region } }
    \cup { << <<c[1] + 1, c[2]>>, <<c[1] + 1, c[2] + 1>> >> :
        c \in { d \in region : << d[1] + 1, d[2] >> \notin region } }
    \cup { << <<c[1] + 1, c[2] + 1>>, <<c[1], c[2] + 1>> >> :
        c \in { d \in region : << d[1], d[2] + 1 >> \notin region } }
    \cup { << <<c[1], c[2] + 1>>, <<c[1], c[2]>> >> :
        c \in { d \in region : << d[1] - 1, d[2] >> \notin region } }

RECURSIVE Walk(_, _, _)
\* the vertices met from `at` along the directed edges until `start` comes again
Walk(edges, start, at) ==
    LET to == (CHOOSE e \in edges : e[1] = at)[2]
    IN IF to = start THEN << at >> ELSE << at >> \o Walk(edges, start, to)

\* the boundary of a connected region without holes, as the counter-clockwise
\* list of its corner vertices
Contour(region) ==
    LET edges == BoundaryEdges(region)
        round == Walk(edges, FirstCell(region), FirstCell(region))
        n == Len(round)
        prior(i) == round[IF i = 1 THEN n ELSE i - 1]
        after(i) == round[IF i = n THEN 1 ELSE i + 1]
        corners == { i \in 1..n :
                       ~ \/ prior(i)[1] = round[i][1] /\ round[i][1] = after(i)[1]
                         \/ prior(i)[2] = round[i][2] /\ round[i][2] = after(i)[2] }
        pick[i \in 0..n] ==
            IF i = 0 THEN << >>
            ELSE IF i \in corners THEN Append(pick[i - 1], round[i]) ELSE pick[i - 1]
    IN pick[n]

RECURSIVE Contours(_)
\* one contour per connected part of the cells
Contours(cells) ==
    IF cells = {} THEN << >>
    ELSE LET part == Connected({FirstCell(cells)}, cells)
         IN << Contour(part) >> \o Contours(cells \ part)

\* Execute(CT_INTERSECTION, PFT_EVENODD, PFT_EVENODD)
Execute(subject, clip) == Contours(PathCells(subject) \cap PathCells(clip))

\* the handler of the clip path's ClipperException giving back the subject
get_intersections_subject_kept(subject, clip) ==
    IF AddPathRejects(subject) THEN << >>
    ELSE IF AddPathRejects(clip) THEN << subject >>
    ELSE Execute(subject, clip)

\* PolygonIntersector._get_intersections
get_intersections(subject, clip) ==
    IF AddPathRejects(subject) THEN << >>
    ELSE IF AddPathRejects(clip) THEN << >>
    ELSE Execute(subject, clip)

\* PolygonIntersector.intersection_polygons: a Polygon per contour
intersection_polygons(subject, clip) == get_intersections(subject, clip)

\* -------------------------------------------------------------- class Level
\* the pieces other than the one of the index appended last to skip_indexes
get_pieces_skipping_last_index(the_pieces, skip_indexes) ==
    LET kept == { i \in DOMAIN the_pieces : skip_indexes[Len(skip_indexes)] # i }
        upto[i \in 0..Len(the_pieces)] ==
            IF i = 0 THEN << >>
            ELSE IF i \in kept THEN Append(upto[i - 1], the_pieces[i]) ELSE upto[i - 1]
    IN upto[Len(the_pieces)]

\* the pieces whose index is not in the list skip_indexes, in order
get_pieces_skipping_these_indexes(the_pieces, skip_indexes) ==
    LET kept == { i \in DOMAIN the_pieces :
                    \A k \in DOMAIN skip_indexes : skip_indexes[k] # i }
        upto[i \in 0..Len(the_pieces)] ==
            IF i = 0 THEN << >>
            ELSE IF i \in kept THEN Append(upto[i - 1], the_pieces[i]) ELSE upto[i - 1]
    IN upto[Len(the_pieces)]

sum_piece_areas(ps) == SumOver([i \in DOMAIN ps |-> area(ps[i].polygon)], DOMAIN ps)

get_intersections_one_to_one(subject, clip) ==
    LET intersections == intersection_polygons(get_points_in_plane(subject),
                                               get_points_in_plane(clip))
    IN [i \in DOMAIN intersections |-> PolygonPiece(intersections[i], <<0, 0>>)]

\* the loop over the clips left after its first round
get_intersections_first_clip_only(subject, clips) ==
    IF clips = << >> THEN << >>
    ELSE get_intersections_one_to_one(subject, clips[1])

get_intersections_one_to_many(subject, clips) ==
    LET upto[k \in 0..Len(clips)] ==
            IF k = 0 THEN << >>
            ELSE upto[k - 1] \o get_intersections_one_to_one(subject, clips[k])
    IN upto[Len(clips)]

\* each subject's intersections replacing, not extending, the list
get_intersections_last_subject_only(subjects, clips) ==
    IF subjects = << >> THEN << >>
    ELSE get_intersections_one_to_many(subjects[Len(subjects)], clips)

get_intersections_many_to_many(subjects, clips) ==
    LET upto[k \in 0..Len(subjects)] ==
            IF k = 0 THEN << >>
            ELSE upto[k - 1] \o get_intersections_one_to_many(subjects[k], clips)
    IN upto[Len(subjects)]

\* the loop without the subtraction of other_piece_intersections
covered_area_overlaps_kept(the_board, the_pieces, k) ==
    LET upto[n \in 0..k] ==
            IF n = 0 THEN 0
            ELSE upto[n - 1]
                   + sum_piece_areas(get_intersections_one_to_one(the_board,
                                                                  the_pieces[n]))
    IN upto[k]

\* covered_area after the loop of get_completion_percentage has handled the
\* pieces of indexes 1..k (the code counts from 0; checked_piece_indexes then
\* holds those k indexes)
covered_area_after(the_board, the_pieces, k) ==
    LET upto[n \in 0..k] ==
            IF n = 0 THEN 0
            ELSE LET board_intersections ==
                         get_intersections_one_to_one(the_board, the_pieces[n])
                     checked_piece_indexes == [i \in 1..n |-> i]
                     other_pieces ==
                         get_pieces_skipping_these_indexes(the_pieces,
                                                           checked_piece_indexes)
                     other_piece_intersections ==
                         get_intersections_many_to_many(board_intersections,
                                                        other_pieces)
                 IN upto[n - 1] + sum_piece_areas(board_intersections)
                      - sum_piece_areas(other_piece_intersections)
    IN upto[k]

RECURSIVE GCD(_, _)
GCD(a, b) == IF b = 0 THEN a ELSE GCD(b, a % b)

\* the number num/den, den > 0, in lowest terms
Ratio(num, den) ==
    LET g == GCD(Abs(num), den)
    IN [num |-> num \div g, den |-> den \div g]

Number(n) == [num |-> n, den |-> 1]

LessEq(a, b) == a.num * b.den <= b.num * a.den

\* the value numpy gives a division by the float 0: inf or nan, and no exception
NonFinite == [num |-> 1, den |-> 0]

\* the return statement without its condition
completion_result_unclamped(the_covered_area, board_area) ==
    [value |-> IF board_area = 0 THEN NonFinite
               ELSE Ratio(the_covered_area * 100, board_area),
     divided |-> TRUE]

\* the return statement with the condition on the board area
completion_result_board_guarded(the_covered_area, board_area) ==
    IF board_area > 0
    THEN [value |-> Ratio(the_covered_area * 100, board_area), divided |-> TRUE]
    ELSE [value |-> Number(0), divided |-> FALSE]

\* the return statement without the factor 100
completion_result_fraction(the_covered_area, board_area) ==
    IF the_covered_area > 0
    THEN [value |-> IF board_area = 0 THEN NonFinite
                    ELSE Ratio(the_covered_area, board_area),
          divided |-> TRUE]
    ELSE [value |-> Number(0), divided |-> FALSE]

\* the return statement with the two areas exchanged
completion_result_inverted(the_covered_area, board_area) ==
    IF the_covered_area > 0
    THEN [value |-> Ratio(board_area * 100, the_covered_area), divided |-> TRUE]
    ELSE [value |-> Number(0), divided |-> FALSE]

\* the return statement: covered_area / board_area * 100 if covered_area > 0 else 0
completion_result(the_covered_area, board_area) ==
    IF the_covered_area > 0
    THEN [value |-> IF board_area = 0 THEN NonFinite
                    ELSE Ratio(the_covered_area * 100, board_area),
          divided |-> TRUE]
    ELSE [value |-> Number(0), divided |-> FALSE]

get_completion_percentage(the_board, the_pieces) ==
    completion_result(covered_area_after(the_board, the_pieces, Len(the_pieces)),
                      area(the_board.polygon))

\* ------------------------------------------------- inputs of the constructor
\* [[0,0],[w,0],[w,h],[0,h]], the form of square_points and
\* vertical_rectangle_points
RectanglePoints(w, h) == << <<0, 0>>, <<w, 0>>, <<w, h>>, <<0, h>> >>

\* [[0,0],[w,h],[w,0]], the form of the triangle boards of the tests
TrianglePoints(w, h) == << <<0, 0>>, <<w, h>>, <<w, 0>> >>

Translated(pts, dx, dy) == [i \in DOMAIN pts |-> << pts[i][1] + dx, pts[i][2] + dy >>]

\* the point lists handed to Polygon(...): rectangles and triangles, moved by up
\* to MaxShift into negative coordinates, and every prefix of them (lists of 0,
\* 1 and 2 points included)
BaseShapes ==
    { RectanglePoints(w, h) : w \in 1..MaxSide, h \in 1..MaxSide }
    \cup { TrianglePoints(w, h) : w \in 1..MaxSide, h \in 1..MaxSide }

PointLists ==
    UNION { { SubSeq(Translated(s, 0 - a, 0 - b), 1, k) :
                a \in 0..MaxShift, b \in 0..MaxShift, k \in 0..Len(s) } :
            s \in BaseShapes }

Degrees == { 90 * k : k \in (0 - MaxTurns)..MaxTurns }

\* coordinates of the matrix in units of 1/count
InUnits(pts) == [i \in DOMAIN pts |-> << Len(pts) * pts[i][1], Len(pts) * pts[i][2] >>]

\* ------------------------------------------------------ Polygon, the actions
\* no Polygon constructed yet
NoPolygon ==
    /\ points_matrix = << >>
    /\ exists = FALSE
    /\ raised = "none"
    /\ op = "none"
    /\ deg = 0
    /\ before = << >>
    /\ origin = << >>
    /\ undone = FALSE

\* Polygon.__init__(points): stores numpy.array(points); no check, no shift
Construct(pts) ==
    /\ ~exists
    /\ points_matrix' = InUnits(pts)
    /\ exists' = TRUE
    /\ raised' = "none"
    /\ op' = "construct"
    /\ deg' = 0
    /\ before' = << >>
    /\ origin' = << >>
    /\ undone' = FALSE
    /\ UNCHANGED <<levelVars, pieceVars>>

\* Polygon.rotate(degrees)
Rotate(degrees) ==
    /\ exists
    /\ get_point_count(points_matrix) > 0
    /\ points_matrix' = rotate(points_matrix, degrees)
    /\ op' = "rotate"
    /\ deg' = degrees
    /\ before' = points_matrix
    /\ origin' = before
    /\ undone' = (op = "rotate" /\ degrees = 0 - deg)
    /\ UNCHANGED <<exists, raised>>
    /\ UNCHANGED <<levelVars, pieceVars>>

\* Polygon.flip()
Flip ==
    /\ exists
    /\ get_point_count(points_matrix) > 0
    /\ points_matrix' = flip(points_matrix)
    /\ op' = "flip"
    /\ deg' = 0
    /\ before' = points_matrix
    /\ origin' = before
    /\ undone' = FALSE
    /\ UNCHANGED <<exists, raised>>
    /\ UNCHANGED <<levelVars, pieceVars>>

PolyNext ==
    \/ \E pts \in PointLists : Construct(pts)
    \/ \E degrees \in Degrees : Rotate(degrees)
    \/ Flip

\* -------------------------------------------------------- Level, the actions
\* vertical_rectangle_points of the tests, 1 wide and 3 high
vertical_rectangle_points == RectanglePoints(1, 3)

\* a rectangle 2 wide and 3 high with a notch cut into the middle of its right side
notched_points ==
    << <<0, 0>>, <<2, 0>>, <<2, 1>>, <<1, 1>>, <<1, 2>>, <<2, 2>>, <<2, 3>>, <<0, 3>> >>

\* a rectangle of width 0, which the clipping engine rejects
flat_points == RectanglePoints(0, 3)

Shapes == { vertical_rectangle_points, notched_points, flat_points }

Boards == { PolygonPiece(s, <<0, 0>>) : s \in Shapes }

Pieces == { PolygonPiece(s, <<x, 0>>) : s \in Shapes, x \in 0..MaxPos }

\* no result yet
NoResult == [num |-> 0, den |-> 0]

NoLevel ==
    /\ board = PolygonPiece(<< >>, <<0, 0>>)
    /\ pieces = << >>
    /\ measured = FALSE
    /\ covered_area = 0
    /\ divided = FALSE
    /\ percentage = NoResult
    /\ prev_percentage = NoResult

\* no PolygonPiece on its own
NoPiece ==
    /\ placed = PolygonPiece(<< >>, <<0, 0>>)
    /\ initial = PolygonPiece(<< >>, <<0, 0>>)
    /\ moved = <<0, 0>>
    /\ moves = 0
    /\ query = "none"
    /\ answer = << >>
    /\ stale = FALSE

\* a Polygon still to be constructed, no Level and no piece on its own
PolyInit == NoPolygon /\ NoLevel /\ NoPiece

\* Level(board, [], intersector)
LevelInit ==
    /\ NoPolygon
    /\ NoPiece
    /\ board \in Boards
    /\ pieces = << >>
    /\ measured = FALSE
    /\ covered_area = 0
    /\ divided = FALSE
    /\ percentage = NoResult
    /\ prev_percentage = NoResult

\* Level.get_completion_percentage()
GetCompletionPercentage ==
    /\ ~measured
    /\ measured' = TRUE
    /\ covered_area' = covered_area_after(board, pieces, Len(pieces))
    /\ LET result == completion_result(covered_area', area(board.polygon))
       IN /\ divided' = result.divided
          /\ percentage' = result.value
    /\ UNCHANGED <<board, pieces, prev_percentage>>
    /\ UNCHANGED <<polyVars, pieceVars>>

\* Level(board, pieces + [piece], intersector): the level with one more piece
AddPiece(piece) ==
    /\ measured
    /\ Len(pieces) < MaxPieces
    /\ pieces' = Append(pieces, piece)
    /\ measured' = FALSE
    /\ covered_area' = 0
    /\ divided' = FALSE
    /\ percentage' = NoResult
    /\ prev_percentage' = percentage
    /\ UNCHANGED board
    /\ UNCHANGED <<polyVars, pieceVars>>

LevelNext ==
    \/ GetCompletionPercentage
    \/ \E piece \in Pieces : AddPiece(piece)

\* the piece lists handed to Level(...): every list of up to MaxPieces pieces
PieceLists == UNION { [1..n -> Pieces] : n \in 0..MaxPieces }

\* Level(board, pieces, intersector) for any board and any piece list
CoverageInit ==
    /\ NoPolygon
    /\ NoPiece
    /\ board \in Boards
    /\ pieces \in PieceLists
    /\ measured = FALSE
    /\ covered_area = 0
    /\ divided = FALSE
    /\ percentage = NoResult
    /\ prev_percentage = NoResult

CoverageNext == GetCompletionPercentage

\* ------------------------------------------------ PolygonPiece, the actions
Moves == (0 - MaxMove)..MaxMove

\* PolygonPiece(polygon, position)
PieceInit ==
    /\ NoPolygon
    /\ NoLevel
    /\ placed \in Pieces
    /\ initial = placed
    /\ moved = <<0, 0>>
    /\ moves = 0
    /\ query = "none"
    /\ answer = << >>
    /\ stale = FALSE

\* PolygonPiece.move(x, y)
Move(x, y) ==
    /\ moves < MaxMoves
    /\ placed' = move(placed, x, y)
    /\ moved' = << moved[1] + x, moved[2] + y >>
    /\ moves' = moves + 1
    /\ query' = "none"
    /\ answer' = << >>
    /\ stale' = (stale \/ query # "none")
    /\ UNCHANGED initial
    /\ UNCHANGED <<polyVars, levelVars>>

\* PolygonPiece.get_points_in_plane()
GetPointsInPlane ==
    /\ query' = "get_points_in_plane"
    /\ answer' = get_points_in_plane(placed)
    /\ UNCHANGED <<placed, initial, moved, moves, stale>>
    /\ UNCHANGED <<polyVars, levelVars>>

\* PolygonPiece.get_center_in_plane()
GetCenterInPlane ==
    /\ query' = "get_center_in_plane"
    /\ answer' = get_center_in_plane(placed)
    /\ UNCHANGED <<placed, initial, moved, moves, stale>>
    /\ UNCHANGED <<polyVars, levelVars>>

PieceNext ==
    \/ \E x, y \in Moves : Move(x, y)
    \/ GetPointsInPlane
    \/ GetCenterInPlane

SpecPolygon == PolyInit /\ [][PolyNext]_vars

SpecPiece == PieceInit /\ [][PieceNext]_vars

SpecLevel == LevelInit /\ [][LevelNext]_vars

\* get_completion_percentage as a function of the board and the piece list
SpecCoverage == CoverageInit /\ [][CoverageNext]_vars

\* ---------------------------------------------------- Level, the properties
\* the contours of board /\ piece i, in plane coordinates
BoardHits(i) ==
    intersection_polygons(get_points_in_plane(board), get_points_in_plane(pieces[i]))

\* the summed area of the contours of a list
ContoursArea(contours) ==
    SumOver([k \in DOMAIN contours |-> area(contours[k])], DOMAIN contours)

\* SUM over the contours of the list hits of area(hit /\ piece j)
OverlapWith(hits, j) ==
    LET clip == get_points_in_plane(pieces[j])
    IN SumOver([k \in DOMAIN hits |->
                   ContoursArea(intersection_polygons(hits[k], clip))],
               DOMAIN hits)

\* SUM over the contours hit of board /\ piece i of area(hit /\ piece j)
PairOverlap(i, j) == OverlapWith(BoardHits(i), j)

\* area(board /\ p_i) - SUM over the indexes j > i of the overlap of the pair
\* (i, j)
AreaLessLaterOverlaps(i) ==
    LET hits == BoardHits(i)
        later == { j \in DOMAIN pieces : j > i }
    IN ContoursArea(hits) - SumOver([j \in later |-> OverlapWith(hits, j)], later)

\* SUM_i area(board /\ p_i) - SUM over the index pairs i < j of the overlap of
\* the pair
PairwiseCorrectedArea ==
    SumOver([i \in DOMAIN pieces |-> AreaLessLaterOverlaps(i)], DOMAIN pieces)

IndexPairs == { ij \in (DOMAIN pieces) \X (DOMAIN pieces) : ij[1] < ij[2] }

\* C1: the covered area accumulated by get_completion_percentage is the sum of
\* the areas of board /\ p_i minus, for every index pair i < j exactly once, the
\* area that the contours of board /\ p_i share with p_j; no pair with j <= i
\* is subtracted.
C1_CoveredAreaIsPairwiseCorrected ==
    measured => covered_area = PairwiseCorrectedArea

\* three or more pieces, a board hit of two contours, and a later piece that
\* overlaps an earlier one inside the board
C1_Witness ==
    /\ measured
    /\ Len(pieces) >= 3
    /\ \E i \in DOMAIN pieces : Len(BoardHits(i)) = 2
    /\ \E ij \in IndexPairs : PairOverlap(ij[1], ij[2]) > 0
    /\ \E ij \in IndexPairs : PairOverlap(ij[1], ij[2]) = 0
    /\ covered_area > 0

\* C2: for a board of positive area and any piece list the returned value v has
\* 0 <= v <= 100: a covered area <= 0 is reported as 0, and the covered area
\* never exceeds the board area.
C2_PercentageWithinBounds ==
    (measured /\ area(board.polygon) > 0) =>
        /\ LessEq(Number(0), percentage)
        /\ LessEq(percentage, Number(100))
        /\ percentage.den > 0
        /\ covered_area <= 0 => percentage = Number(0)
        /\ covered_area <= area(board.polygon)

\* a negative covered area, reported as 0
C2_Witness ==
    /\ measured
    /\ area(board.polygon) > 0
    /\ covered_area < 0
    /\ percentage = Number(0)

\* C3: with an empty piece list get_completion_percentage returns 0 and does not
\* evaluate the division by the board area, also for a board of area 0.
C3_NoPiecesGivesZeroWithoutDivision ==
    (measured /\ pieces = << >>) =>
        /\ percentage = Number(0)
        /\ ~divided

\* no pieces on a board of area 0
C3_Witness ==
    /\ measured
    /\ pieces = << >>
    /\ area(board.polygon) = 0
    /\ percentage = Number(0)

\* C4: a Level whose only piece has the polygon and the position of the board,
\* the board of positive area, reports 100.
C4_PieceEqualToBoardGivesHundred ==
    (measured /\ pieces = << board >> /\ area(board.polygon) > 0) =>
        percentage = Number(100)

\* the notched board covered by a copy of itself
C4_Witness ==
    /\ measured
    /\ pieces = << board >>
    /\ board.polygon = notched_points
    /\ percentage = Number(100)

\* C5: Level(board, [p, p]) reports what Level(board, [p]) reports.
C5_SecondCopyAddsNothing ==
    (measured /\ Len(pieces) = 2 /\ pieces[1] = pieces[2]) =>
        percentage = prev_percentage

\* two copies of a piece that meets the board in two contours
C5_Witness ==
    /\ measured
    /\ Len(pieces) = 2
    /\ pieces[1] = pieces[2]
    /\ Len(BoardHits(1)) = 2
    /\ percentage = prev_percentage
    /\ LessEq(Number(1), percentage)

\* the last piece overlaps none of the pieces before it
LastPieceOverlapsNone ==
    \A i \in 1..(Len(pieces) - 1) :
        intersection_polygons(get_points_in_plane(pieces[i]),
                              get_points_in_plane(pieces[Len(pieces)])) = << >>

\* C6: for a piece list L and a piece q that overlaps none of the pieces of L,
\* Level(board, L + [q]) reports at least what Level(board, L) reports.
C6_DisjointPieceNeverDecreases ==
    (measured /\ Len(pieces) >= 1 /\ LastPieceOverlapsNone) =>
        LessEq(prev_percentage, percentage)

\* a piece added beside the pieces already there, raising the coverage
C6_Witness ==
    /\ measured
    /\ Len(pieces) >= 2
    /\ LastPieceOverlapsNone
    /\ LessEq(Number(1), prev_percentage)
    /\ ~LessEq(percentage, prev_percentage)

\* the clipping engine rejects the plane path of the piece
Rejected(piece) == AddPathRejects(get_points_in_plane(piece))

RejectedIndexes == { i \in DOMAIN pieces : Rejected(pieces[i]) }

\* the piece list without the pieces the clipping engine rejects
AcceptedPieces == SelectSeq(pieces, LAMBDA piece : ~Rejected(piece))

\* C11: when the clipping engine rejects the subject or the clip path,
\* intersection_polygons returns the empty list; get_completion_percentage over
\* a list with such a piece returns a percentage, and the covered area is the
\* one of the list without the rejected pieces: a rejected piece adds no area
\* and takes no overlap away.
C11_RejectedPathGivesNothing ==
    measured =>
        /\ \A i \in RejectedIndexes :
            /\ BoardHits(i) = << >>
            /\ intersection_polygons(get_points_in_plane(pieces[i]),
                                     get_points_in_plane(board)) = << >>
        /\ Rejected(board) => \A i \in DOMAIN pieces : BoardHits(i) = << >>
        /\ percentage.den > 0
        /\ \A accepted \in { AcceptedPieces } :
             accepted # pieces =>
                 covered_area = covered_area_after(board, accepted, Len(accepted))

\* a rejected piece between two accepted pieces that overlap inside the board
C11_Witness ==
    /\ measured
    /\ Len(pieces) >= 3
    /\ \E i \in RejectedIndexes :
        \E h, j \in DOMAIN pieces \ RejectedIndexes :
            h < i /\ i < j /\ PairOverlap(h, j) > 0
    /\ covered_area > 0
    /\ LessEq(Number(1), percentage)

\* the unit cells of the board, and of each piece
BoardCells == PathCells(get_points_in_plane(board))

PieceCells == [i \in DOMAIN pieces |-> PathCells(get_points_in_plane(pieces[i]))]

\* the area of board /\ (union of the pieces), in the unit of area()
TrueCoveredArea ==
    2 * Cardinality(BoardCells \cap UNION { PieceCells[i] : i \in DOMAIN pieces })

\* some region of positive area of the board lies in three or more pieces
TripleCovered ==
    LET cells == PieceCells
    IN \E cell \in BoardCells :
           Cardinality({ i \in DOMAIN pieces : cell \in cells[i] }) >= 3

\* C13: for a board of positive area the reported coverage is <= the true
\* coverage (area of board /\ union of pieces, over the board area, times
\* 100); it is the true coverage when no region of the board lies in three or
\* more pieces, and strictly smaller when one does.
C13_ReportedAtMostTrueCoverage ==
    (measured /\ area(board.polygon) > 0) =>
        LET true_coverage == Ratio(TrueCoveredArea * 100, area(board.polygon))
            triple == TripleCovered
        IN /\ LessEq(percentage, true_coverage)
           /\ ~triple => percentage = true_coverage
           /\ triple => ~LessEq(true_coverage, percentage)

\* three pieces stacked on one part of the board and a fourth piece alone on
\* another part: a positive coverage below the true one
C13_Witness ==
    /\ measured
    /\ area(board.polygon) > 0
    /\ TripleCovered
    /\ LessEq(Number(1), percentage)
    /\ ~LessEq(Ratio(TrueCoveredArea * 100, area(board.polygon)), percentage)

RECURSIVE Arranged(_, _)
\* the pieces of the list grouped by kind, the kinds in an order that depends
\* on the set of kinds alone
Arranged(kinds, the_pieces) ==
    IF kinds = {} THEN << >>
    ELSE LET kind == CHOOSE piece \in kinds : TRUE
         IN SelectSeq(the_pieces, LAMBDA piece : piece = kind)
              \o Arranged(kinds \ {kind}, the_pieces)

\* one arrangement for all the permutations of a piece list
Canonical(the_pieces) ==
    Arranged({ the_pieces[i] : i \in DOMAIN the_pieces }, the_pieces)

\* C16: get_completion_percentage returns the same value, from the same
\* covered area, for every permutation of the piece list: every list gives
\* what the one arrangement common to all its permutations gives.
C16_PieceOrderIsIrrelevant ==
    measured =>
        \A arranged \in { Canonical(pieces) } :
            LET arranged_area == covered_area_after(board, arranged, Len(arranged))
            IN /\ covered_area = arranged_area
               /\ percentage
                    = completion_result(arranged_area, area(board.polygon)).value

\* three or more pieces in another order than the common arrangement, with a
\* pair that overlaps inside the board and a pair that does not
C16_Witness ==
    /\ measured
    /\ Len(pieces) >= 3
    /\ RejectedIndexes = {}
    /\ pieces # Canonical(pieces)
    /\ pieces[1] # pieces[Len(pieces)]
    /\ \E ij \in IndexPairs : PairOverlap(ij[1], ij[2]) > 0
    /\ \E ij \in IndexPairs : PairOverlap(ij[1], ij[2]) = 0
    /\ LessEq(Number(1), percentage)

\* -------------------------------------------------- Polygon, the properties
\* every coordinate of the model is a whole number of units of 1/count: the
\* centroid division leaves no remainder
UnitsExact ==
    (exists /\ get_point_count(points_matrix) > 0) =>
        /\ get_point_sum(points_matrix)[1] % get_point_count(points_matrix) = 0
        /\ get_point_sum(points_matrix)[2] % get_point_count(points_matrix) = 0

\* a and b have the same vertices in the same order, each coordinate within half
\* a coordinate unit (a unit is Len(a) model units), i.e. equal after round()
WithinRounding(a, b) ==
    /\ Len(a) = Len(b)
    /\ \A i \in DOMAIN a :
        /\ 2 * Abs(a[i][1] - b[i][1]) < Len(a)
        /\ 2 * Abs(a[i][2] - b[i][2]) < Len(a)

\* a is b with every vertex displaced by the same vector, of components >= 0
DisplacedCopy(a, b) ==
    /\ Len(a) = Len(b)
    /\ \A i \in DOMAIN a :
        /\ a[i][1] - b[i][1] = a[1][1] - b[1][1]
        /\ a[i][2] - b[i][2] = a[1][2] - b[1][2]
        /\ a[i][1] - b[i][1] >= 0
        /\ a[i][2] - b[i][2] >= 0

\* the polygons of the data model: at least 3 vertices, no negative coordinate
WellFormed(pm) ==
    /\ get_point_count(pm) >= 3
    /\ \A i \in DOMAIN pm : pm[i][1] >= 0 /\ pm[i][2] >= 0

\* C7 as stated: after rotate(d) then rotate(-d) the polygon has its original
\* vertex coordinates in the original order, within rounding.  Stated for the
\* polygons that start with at least 3 vertices and in quadrant one.
C7_RotateBackRestoresPoints ==
    (undone /\ WellFormed(origin)) => WithinRounding(points_matrix, origin)

\* C7 amended: after rotate(d) then rotate(-d) the polygon has its original
\* vertices in the original order, all displaced by one common vector with
\* non-negative components (the quadrant-one shifts of the two rotations).
C7_RotateBackDisplacesPoints ==
    undone => DisplacedCopy(points_matrix, origin)

\* a round trip through a real rotation whose quadrant-one shift moved the
\* polygon off its original coordinates
C7_Witness ==
    /\ undone
    /\ deg % 360 # 0
    /\ get_point_count(points_matrix) >= 3
    /\ area(points_matrix) > 0
    /\ WellFormed(origin)
    /\ points_matrix # origin

\* C8 as stated: in every state of a Polygon, right after construction and after
\* any rotate and flip, every vertex coordinate is >= 0.  Stated for the
\* polygons of at least 3 vertices.
C8_CoordinatesNeverNegative ==
    (exists /\ get_point_count(points_matrix) >= 3) =>
        \A i \in DOMAIN points_matrix :
            points_matrix[i][1] >= 0 /\ points_matrix[i][2] >= 0

\* C9: rotate(360*k) is a no-op, the vertex sequence after the call is the one
\* before it.
C9_FullTurnLeavesPoints ==
    (op = "rotate" /\ deg % 360 = 0) => points_matrix = before

\* rotate by a non-zero multiple of 360 on a polygon that a quadrant-one shift
\* would have moved
C9_Witness ==
    /\ op = "rotate"
    /\ deg # 0
    /\ deg % 360 = 0
    /\ get_point_count(points_matrix) >= 3
    /\ points_matrix = before
    /\ \E i \in DOMAIN points_matrix : points_matrix[i][1] < 0

\* C10 as stated: constructing a Polygon from fewer than 3 points raises
\* InvalidGeometry and yields no polygon object.
C10_ShortPointListRejected ==
    /\ exists => get_point_count(points_matrix) >= 3
    /\ (op = "construct" /\ ~exists) => raised = "InvalidGeometry"

\* C12: flip() leaves the number of vertices and the value of area() as they
\* were before the call; so they are, after two consecutive flips, what they
\* were before the first, and so on for every further flip.
C12_FlipKeepsCountAndArea ==
    op = "flip" =>
        /\ get_point_count(points_matrix) = get_point_count(before)
        /\ area(points_matrix) = area(before)
        /\ (origin # << >> /\ before = flip(origin)) =>
              /\ get_point_count(points_matrix) = get_point_count(origin)
              /\ area(points_matrix) = area(origin)

\* the second of two consecutive flips of a polygon of positive area, each of
\* which changed the points
C12_Witness ==
    /\ op = "flip"
    /\ origin # << >>
    /\ before = flip(origin)
    /\ before # origin
    /\ points_matrix # before
    /\ get_point_count(points_matrix) >= 3
    /\ area(points_matrix) > 0
    /\ area(points_matrix) = area(origin)

\* the vertices in reverse order, each with its (x, y) as it is
ReversedKeepingCoordinates(pm) == [i \in DOMAIN pm |-> pm[Len(pm) + 1 - i]]

\* the vertices in reverse order, each with its x and y exchanged
ReversedSwappingCoordinates(pm) ==
    [i \in DOMAIN pm |-> << pm[Len(pm) + 1 - i][2], pm[Len(pm) + 1 - i][1] >>]

\* the centroid subtracted from every vertex, then the shift into quadrant one
Recentred(pm) ==
    move_to_quadrant_one(
        [i \in DOMAIN pm |-> << pm[i][1] - get_centroid_point(pm)[1],
                                pm[i][2] - get_centroid_point(pm)[2] >>])

\* C15 as stated: the vertex sequence after flip() is the one got by rotating
\* by -90 degrees (with its quadrant-one shift), reversing the order of the
\* vertices with each vertex's (x, y) kept, subtracting the new centroid and
\* shifting into quadrant one.  Stated for the polygons of at least 3 vertices
\* in quadrant one.
C15_FlipKeepsCoordinates ==
    (op = "flip" /\ WellFormed(before)) =>
        points_matrix = Recentred(ReversedKeepingCoordinates(rotate(before, 0 - 90)))

\* C15 amended: the vertex sequence after flip() is the one got by rotating by
\* -90 degrees (with its quadrant-one shift), reversing the order of the
\* vertices and exchanging the x and y of each vertex, subtracting the new
\* centroid and shifting into quadrant one.
C15_FlipSwapsCoordinates ==
    op = "flip" =>
        points_matrix = Recentred(ReversedSwappingCoordinates(rotate(before, 0 - 90)))

\* a flip of a polygon for which the exchange of x and y shows in the result
C15_Witness ==
    /\ op = "flip"
    /\ WellFormed(before)
    /\ area(before) > 0
    /\ points_matrix # Recentred(ReversedKeepingCoordinates(rotate(before, 0 - 90)))
    /\ points_matrix = Recentred(ReversedSwappingCoordinates(rotate(before, 0 - 90)))

\* ----------------------------------------------- PolygonPiece, the properties
\* C14: after any sequence of move calls get_points_in_plane() returns every
\* vertex of the polygon translated by the initial position plus the sum of all
\* moves, also when it was asked before the last move; the points of the
\* polygon are the ones of construction after every move and every query.
C14_PlanePointsFollowMoves ==
    /\ placed.polygon = initial.polygon
    /\ placed.position = << initial.position[1] + moved[1],
                            initial.position[2] + moved[2] >>
    /\ query = "get_points_in_plane" =>
         answer = Translated(initial.polygon, initial.position[1] + moved[1],
                             initial.position[2] + moved[2])

\* the plane points asked again after two moves that took the piece away from
\* where it was asked first
C14_Witness ==
    /\ query = "get_points_in_plane"
    /\ stale
    /\ moves >= 2
    /\ moved[1] # 0
    /\ moved[2] # 0
    /\ area(placed.polygon) > 0
    /\ answer # get_points_in_plane(initial)

=============================================================================
